---- MODULE Spec2Model ----
(***************************************************************************)
(* Model of the lifestyle-balance-board connectivity check:                *)
(*   - ApiService (frontend/src/services/api.ts): getBaseUrl, getApiInfo,  *)
(*     getHealthCheck, testConnection;                                     *)
(*   - ApiTestComponent: the four useState cells, the testApiConnection    *)
(*     handler and what the component renders from them.                   *)
(* JavaScript values are tagged records, so that null, strings, numbers,   *)
(* objects and Error instances stay distinguishable.                       *)
(***************************************************************************)
EXTENDS Integers, Sequences, FiniteSets, TLC

VARIABLES
    env,         \* process.env.NEXT_PUBLIC_API_BASE_URL
    apiStatus,   \* useState<ApiStatus>
    apiData,     \* useState<ApiResponse | null>
    healthData,  \* useState<HealthResponse | null>
    error,       \* useState<string | null>
    checks,      \* the testApiConnection invocations, in the order they started
    triggers,    \* how many times the handler has been invoked
    fetches,     \* the URLs fetch has been called with, in call order
    served       \* the requests the API process answered, with its answers

vars == <<env, apiStatus, apiData, healthData, error, checks, triggers, fetches,
          served>>

uiVars == <<apiStatus, apiData, healthData, error>>

----------------------------------------------------------------------------
(* Bounds *)

\* how many times the handler is invoked in a behaviour
MaxChecks == 2

\* how many direct calls of ApiService.testConnection a behaviour makes
MaxCalls == 1

\* how many requests the API process answers in a behaviour
MaxRequests == 2

----------------------------------------------------------------------------
(* JavaScript values *)

Undefined == [type |-> "undefined"]

Null == [type |-> "null"]

Str(s) == [type |-> "string", value |-> s]

Num(n) == [type |-> "number", value |-> n]

Obj(f) == [type |-> "object", fields |-> f]

\* [a, b]
Arr(a, b) == [type |-> "array", items |-> <<a, b>>]

\* new Error(m)
Err(m) == [type |-> "Error", message |-> m]

\* JavaScript truthiness, as used by || and &&
Truthy(v) ==
    CASE v.type = "undefined" -> FALSE
      [] v.type = "null"      -> FALSE
      [] v.type = "string"    -> v.value # ""
      [] v.type = "number"    -> v.value # 0
      [] OTHER                -> TRUE

\* v.f : property access on a value that is neither null nor undefined
Get(v, f) ==
    IF v.type = "object" /\ f \in DOMAIN v.fields THEN v.fields[f]
    ELSE IF v.type = "Error" /\ f = "message" THEN Str(v.message)
    ELSE Undefined

\* err instanceof Error
InstanceOfError(v) == v.type = "Error"

----------------------------------------------------------------------------
(* Promises *)

Pending == [st |-> "pending", value |-> Undefined]

Fulfilled(v) == [st |-> "fulfilled", value |-> v]

Rejected(e) == [st |-> "rejected", value |-> e]

Settled(p) == p.st # "pending"

----------------------------------------------------------------------------
(* What the network can answer *)

\* numbers with a fractional part are kept in thousandths
InfoBody ==
    Obj([message   |-> Str("Lifestyle Balance Board API"),
         version   |-> Str("1.0.0"),
         timestamp |-> Str("2025-08-12T20:00:00.000Z")])

HealthBody ==
    Obj([status    |-> Str("healthy"),
         timestamp |-> Str("2025-08-12T20:00:00.000Z"),
         uptime    |-> Num(3600500)])

\* the bodies response.json() can produce (no schema is enforced)
Bodies == {InfoBody, HealthBody, Null}

Statuses == {404, 500, 503}

\* what fetch itself can reject with: an Error, or any other thrown value
FetchRejections == {Err("Network error"), Str("Unknown error")}

\* response.json() rejects on a body that is not JSON
JsonRejections == {Err("Unexpected end of JSON input")}

\* a Response: ok, status, and the promise json() returns
Response(ok, status, json) ==
    [kind |-> "response", ok |-> ok, status |-> status, json |-> json]

NetworkFailure(e) == [kind |-> "reject", reason |-> e]

\* every way a fetch can settle
FetchResults ==
    {Response(TRUE, 200, Fulfilled(b)) : b \in Bodies}
    \cup {Response(TRUE, 200, Rejected(e)) : e \in JsonRejections}
    \cup {Response(FALSE, s, Fulfilled(Null)) : s \in Statuses}
    \cup {NetworkFailure(e) : e \in FetchRejections}

\* the answers used where several checks run at once: a well-formed body, a
\* null body, an HTTP failure (an Error) and a rejection with a bare string
InfoResults ==
    {Response(TRUE, 200, Fulfilled(InfoBody)),
     Response(TRUE, 200, Fulfilled(Null)),
     Response(FALSE, 500, Fulfilled(Null))}

HealthResults ==
    {Response(TRUE, 200, Fulfilled(HealthBody)),
     Response(TRUE, 200, Fulfilled(Null)),
     NetworkFailure(Str("Unknown error"))}

EnvValues == {Undefined, Str(""), Str("https://production-api.com")}

----------------------------------------------------------------------------
(* ApiService *)

\* getBaseUrl with ?? in place of ||: an empty string counts as configured
getBaseUrl_nullish ==
    IF env.type \in {"undefined", "null"} THEN "http://localhost:3001"
    ELSE env.value

\* a getBaseUrl that keeps the value it computed for the first request
getBaseUrl_cached ==
    IF fetches # <<>> THEN fetches[1]
    ELSE IF Truthy(env) THEN env.value ELSE "http://localhost:3001"

\* process.env.NEXT_PUBLIC_API_BASE_URL || "http://localhost:3001"
getBaseUrl ==
    IF Truthy(env) THEN env.value ELSE "http://localhost:3001"

\* a getApiInfo that appends a path
getApiInfoUrl_withPath == getBaseUrl \o "/"

\* fetch(this.getBaseUrl())
getApiInfoUrl == getBaseUrl

\* fetch(`${this.getBaseUrl()}/api/health`)
getHealthCheckUrl == getBaseUrl \o "/api/health"

\* getApiInfo with the fetch wrapped in a try/catch that rethrows a new Error
getApiInfo_wrapped(r) ==
    IF r.kind = "reject" THEN Rejected(Err("HTTP error! status: 0"))
    ELSE IF ~r.ok THEN Rejected(Err("HTTP error! status: " \o ToString(r.status)))
    ELSE r.json

\* getApiInfo with a shape check on the parsed body
getApiInfo_validated(r) ==
    IF r.kind = "reject" THEN Rejected(r.reason)
    ELSE IF ~r.ok THEN Rejected(Err("HTTP error! status: " \o ToString(r.status)))
    ELSE IF r.json.st = "fulfilled" /\ Get(r.json.value, "message") = Undefined
         THEN Rejected(Err("Invalid response"))
    ELSE r.json

\* getApiInfo once its fetch has settled with r
getApiInfo(r) ==
    IF r.kind = "reject" THEN Rejected(r.reason)
    ELSE IF ~r.ok THEN Rejected(Err("HTTP error! status: " \o ToString(r.status)))
    ELSE r.json

\* getHealthCheck without the response.ok test
getHealthCheck_noOkTest(r) ==
    IF r.kind = "reject" THEN Rejected(r.reason)
    ELSE r.json

\* getHealthCheck once its fetch has settled with r
getHealthCheck(r) ==
    IF r.kind = "reject" THEN Rejected(r.reason)
    ELSE IF ~r.ok THEN Rejected(Err("HTTP error! status: " \o ToString(r.status)))
    ELSE r.json

\* Promise.allSettled in place of Promise.all: waits for both, never rejects
PromiseAll_allSettled(prev, settled, p, q) ==
    IF prev.st # "pending" THEN prev
    ELSE IF p.st # "pending" /\ q.st # "pending"
         THEN Fulfilled(Arr(p.value, q.value))
    ELSE Pending

\* a combinator that settles with whichever input settles first
PromiseAll_race(prev, settled, p, q) ==
    IF prev.st # "pending" THEN prev
    ELSE IF settled.st = "rejected" THEN Rejected(settled.value)
    ELSE Fulfilled(Arr(p.value, q.value))

\* a combinator that reports the first input's rejection whenever it has one
PromiseAll_prefersInfo(prev, settled, p, q) ==
    IF p.st = "rejected" THEN Rejected(p.value)
    ELSE IF prev.st # "pending" THEN prev
    ELSE IF settled.st = "rejected" THEN Rejected(settled.value)
    ELSE IF p.st = "fulfilled" /\ q.st = "fulfilled"
         THEN Fulfilled(Arr(p.value, q.value))
    ELSE Pending

\* a combinator whose rejection is replaced by a later one
PromiseAll_lastRejection(prev, settled, p, q) ==
    IF settled.st = "rejected" THEN Rejected(settled.value)
    ELSE IF prev.st # "pending" THEN prev
    ELSE IF p.st = "fulfilled" /\ q.st = "fulfilled"
         THEN Fulfilled(Arr(p.value, q.value))
    ELSE Pending

\* a combinator that rejects only once both inputs have settled
PromiseAll_waitsForBoth(prev, settled, p, q) ==
    IF prev.st # "pending" THEN prev
    ELSE IF p.st = "pending" \/ q.st = "pending" THEN Pending
    ELSE IF p.st = "rejected" THEN Rejected(p.value)
    ELSE IF q.st = "rejected" THEN Rejected(q.value)
    ELSE Fulfilled(Arr(p.value, q.value))

\* Promise.all([p, q]) when one of its inputs, `settled`, has just settled;
\* prev is the state of the combined promise before
PromiseAll(prev, settled, p, q) ==
    IF prev.st # "pending" THEN prev
    ELSE IF settled.st = "rejected" THEN Rejected(settled.value)
    ELSE IF p.st = "fulfilled" /\ q.st = "fulfilled"
         THEN Fulfilled(Arr(p.value, q.value))
    ELSE Pending

\* testConnection: await Promise.all, destructure, return {apiInfo, healthCheck}
testConnection(all) ==
    IF all.st = "fulfilled"
    THEN Fulfilled(Obj([apiInfo     |-> all.value.items[1],
                        healthCheck |-> all.value.items[2]]))
    ELSE all

----------------------------------------------------------------------------
(* ApiTestComponent *)

\* one invocation of testApiConnection and the ApiService calls it started
NewCheck ==
    [infoUrl     |-> getApiInfoUrl,
     healthUrl   |-> getHealthCheckUrl,
     infoFetch   |-> Pending,     \* the promise of fetch(infoUrl)
     healthFetch |-> Pending,     \* the promise of fetch(healthUrl)
     apiInfo     |-> Pending,     \* the promise of getApiInfo()
     healthCheck |-> Pending,     \* the promise of getHealthCheck()
     all         |-> Pending,     \* the promise of Promise.all
     resumed     |-> FALSE,       \* the handler has run past its await
     startedIn   |-> apiStatus]   \* the status rendered when the call began

\* a testConnection that awaits getApiInfo() before calling getHealthCheck()
NewFetches_sequential == <<getApiInfoUrl>>

\* the two fetch calls testConnection makes before its await: the array
\* literal calls getApiInfo() and then getHealthCheck(), and each runs up to
\* its own await fetch(...)
NewFetches == <<getApiInfoUrl, getHealthCheckUrl>>

\* the promise of ApiService.testConnection() of check c
Result(c) == testConnection(checks[c].all)

\* testApiConnection without setError(null)
testApiConnection_keepsError ==
    /\ triggers < MaxChecks
    /\ triggers' = triggers + 1
    /\ apiStatus' = "loading"
    /\ apiData' = Null
    /\ healthData' = Null
    /\ checks' = Append(checks, NewCheck)
    /\ fetches' = fetches \o NewFetches
    /\ UNCHANGED <<env, served, error>>

\* testApiConnection without the four resets before the try
testApiConnection_noReset ==
    /\ triggers < MaxChecks
    /\ triggers' = triggers + 1
    /\ checks' = Append(checks, NewCheck)
    /\ fetches' = fetches \o NewFetches
    /\ UNCHANGED <<env, served, uiVars>>

\* a handler that returns at once when a check is already loading
testApiConnection_guarded ==
    /\ triggers < MaxChecks
    /\ triggers' = triggers + 1
    /\ IF apiStatus = "loading"
       THEN UNCHANGED <<env, served, uiVars, checks, fetches>>
       ELSE /\ apiStatus' = "loading"
            /\ error' = Null
            /\ apiData' = Null
            /\ healthData' = Null
            /\ checks' = Append(checks, NewCheck)
            /\ fetches' = fetches \o NewFetches
            /\ UNCHANGED <<env, served>>

\* a handler that does not enter the loading state
testApiConnection_noLoading ==
    /\ triggers < MaxChecks
    /\ triggers' = triggers + 1
    /\ error' = Null
    /\ apiData' = Null
    /\ healthData' = Null
    /\ checks' = Append(checks, NewCheck)
    /\ fetches' = fetches \o NewFetches
    /\ UNCHANGED <<env, served, apiStatus>>

\* a handler that leaves the previous payloads in place
testApiConnection_keepsData ==
    /\ triggers < MaxChecks
    /\ triggers' = triggers + 1
    /\ apiStatus' = "loading"
    /\ error' = Null
    /\ checks' = Append(checks, NewCheck)
    /\ fetches' = fetches \o NewFetches
    /\ UNCHANGED <<env, served, apiData, healthData>>

\* the synchronous part of testApiConnection, up to the await
testApiConnection ==
    /\ triggers < MaxChecks
    /\ triggers' = triggers + 1
    /\ apiStatus' = "loading"
    /\ error' = Null
    /\ apiData' = Null
    /\ healthData' = Null
    /\ checks' = Append(checks, NewCheck)
    /\ fetches' = fetches \o NewFetches
    /\ UNCHANGED <<env, served>>

\* the try branch without setHealthData
OnResolved_noHealth(result) ==
    /\ apiData' = Get(result, "apiInfo")
    /\ apiStatus' = "success"
    /\ UNCHANGED <<healthData, error>>

\* the try branch after the await
OnResolved(result) ==
    /\ apiData' = Get(result, "apiInfo")
    /\ healthData' = Get(result, "healthCheck")
    /\ apiStatus' = "success"
    /\ UNCHANGED error

\* the catch branch showing whatever was thrown
OnRejected_raw(err) ==
    /\ apiStatus' = "error"
    /\ error' = IF InstanceOfError(err) THEN Str(err.message) ELSE err
    /\ UNCHANGED <<apiData, healthData>>

\* a catch branch that puts the component back into its initial status
OnRejected_toIdle(err) ==
    /\ apiStatus' = "idle"
    /\ error' = IF InstanceOfError(err) THEN Str(err.message)
                ELSE Str("Unknown error occurred")
    /\ UNCHANGED <<apiData, healthData>>

\* the catch branch without setApiStatus('error')
OnRejected_noStatus(err) ==
    /\ error' = IF InstanceOfError(err) THEN Str(err.message)
                ELSE Str("Unknown error occurred")
    /\ UNCHANGED <<apiStatus, apiData, healthData>>

\* the catch branch
OnRejected(err) ==
    /\ apiStatus' = "error"
    /\ error' = IF InstanceOfError(err) THEN Str(err.message)
                ELSE Str("Unknown error occurred")
    /\ UNCHANGED <<apiData, healthData>>

\* a handler that drops the settlement of every check but the latest
Resume_latestOnly(c) ==
    /\ c \in DOMAIN checks
    /\ Settled(Result(c))
    /\ ~checks[c].resumed
    /\ checks' = [checks EXCEPT ![c].resumed = TRUE]
    /\ IF c # Len(checks) THEN UNCHANGED uiVars
       ELSE IF Result(c).st = "fulfilled"
       THEN OnResolved(Result(c).value)
       ELSE OnRejected(Result(c).value)
    /\ UNCHANGED <<env, served, triggers, fetches>>

\* testApiConnection of check c resumes after its await
Resume(c) ==
    /\ c \in DOMAIN checks
    /\ Settled(Result(c))
    /\ ~checks[c].resumed
    /\ checks' = [checks EXCEPT ![c].resumed = TRUE]
    /\ IF Result(c).st = "fulfilled"
       THEN OnResolved(Result(c).value)
       ELSE OnRejected(Result(c).value)
    /\ UNCHANGED <<env, served, triggers, fetches>>

\* rendering
\* a control that is never disabled
buttonDisabled_never == FALSE

\* a control that stays disabled after a failed check
buttonDisabled_untilSuccess == apiStatus \in {"loading", "error"}

\* disabled={apiStatus === 'loading'}
buttonDisabled == apiStatus = "loading"

buttonLabel ==
    IF apiStatus = "loading" THEN "Testing Connection..."
    ELSE "Test Backend Connection"

\* a success panel rendered whenever a payload is held
successPanel_dataOnly == Truthy(apiData)

\* a success panel rendered whenever the status is success
successPanel_statusOnly == apiStatus = "success"

\* {apiStatus === 'success' && apiData && (...)}
successPanel == apiStatus = "success" /\ Truthy(apiData)

errorPanel == apiStatus = "error"

\* {apiData.message}, {apiData.version}: rendered inside the success panel
apiMessage == Get(apiData, "message")

apiVersion == Get(apiData, "version")

\* Backend URL: {ApiService.getBaseUrl()}, evaluated when the panel renders
backendUrl == getBaseUrl

\* health fields rendered whenever the success panel is
healthFields_noGuard == successPanel

\* {healthData && (...)}: nested in the success panel
healthFields == successPanel /\ Truthy(healthData)

\* {healthData.status}
healthStatusText == Get(healthData, "status")

\* Math.floor on a number held in thousandths; NaN for anything else
MathFloor(v) ==
    IF v.type = "number" THEN Num(v.value - (v.value % 1000))
    ELSE [type |-> "NaN"]

\* {Math.floor(healthData.uptime)}s
uptimeSeconds == MathFloor(Get(healthData, "uptime"))

\* {error}: rendered inside the error panel
errorText == error

\* Trying to connect to: {ApiService.getBaseUrl()}, evaluated when the
\* error panel renders
errorUrl == getBaseUrl

----------------------------------------------------------------------------
(* The environment: clicks, the network, configuration *)

\* the button is clicked (it is disabled while loading)
Click ==
    /\ ~buttonDisabled
    /\ testApiConnection

\* the handler is invoked while a check is loading
Reenter ==
    /\ apiStatus = "loading"
    /\ testApiConnection

\* the promise fetch returns, once the network has answered r
FetchPromise(r) ==
    IF r.kind = "reject" THEN Rejected(r.reason) ELSE Fulfilled(r)

\* a getApiInfo that fetches again when its first fetch failed
AfterInfoSettled_retry(c, r) ==
    IF r.kind = "reject" \/ ~r.ok
    THEN Append(fetches, checks[c].infoUrl)
    ELSE fetches

\* the fetch calls made once the fetch of getApiInfo of check c has settled
\* with r: getApiInfo throws or returns, it calls fetch once
AfterInfoSettled(c, r) == fetches

\* the same for getHealthCheck
AfterHealthSettled(c, r) == fetches

\* the fetch of getApiInfo of check c settles with r
InfoFetchSettles(c, r) ==
    /\ checks[c].infoFetch.st = "pending"
    /\ LET p == getApiInfo(r)
           a == PromiseAll(checks[c].all, p, p, checks[c].healthCheck)
       IN checks' = [checks EXCEPT ![c].infoFetch = FetchPromise(r),
                                   ![c].apiInfo = p, ![c].all = a]
    /\ fetches' = AfterInfoSettled(c, r)
    /\ UNCHANGED <<env, served, uiVars, triggers>>

\* the fetch of getHealthCheck of check c settles with r
HealthFetchSettles(c, r) ==
    /\ checks[c].healthFetch.st = "pending"
    /\ LET q == getHealthCheck(r)
           a == PromiseAll(checks[c].all, q, checks[c].apiInfo, q)
       IN checks' = [checks EXCEPT ![c].healthFetch = FetchPromise(r),
                                   ![c].healthCheck = q, ![c].all = a]
    /\ fetches' = AfterHealthSettled(c, r)
    /\ UNCHANGED <<env, served, uiVars, triggers>>

\* ApiService.testConnection() is called directly, outside the component
DirectCall ==
    /\ Len(checks) < MaxCalls
    /\ checks' = Append(checks, NewCheck)
    /\ fetches' = fetches \o NewFetches
    /\ UNCHANGED <<env, served, uiVars, triggers>>

\* process.env.NEXT_PUBLIC_API_BASE_URL is set, changed or deleted
SetEnv(v) ==
    /\ env' = v
    /\ env' # env
    /\ UNCHANGED <<uiVars, checks, triggers, fetches, served>>

----------------------------------------------------------------------------
(* The API process: the express application of createTestApp *)

Methods == {"GET", "HEAD", "POST", "OPTIONS"}

Paths == {"/", "/api/health", "/non-existent-route", "/some-random-endpoint"}

\* the request carries no body, a JSON body, or a body announced as JSON
\* that does not parse
BodyKinds == {"none", "json", "malformed"}

Requests == [method : Methods, path : Paths, body : BodyKinds]

Reply(status, body) == [status |-> status, body |-> body]

\* a middleware or route that passes the request on: next()
PassOn == [status |-> 0, body |-> Undefined]

\* next(err)
PassError == [status |-> -1, body |-> Undefined]

\* cors() with its defaults: a preflight is answered at once with 204
cors(req) ==
    IF req.method = "OPTIONS" THEN Reply(204, Undefined) ELSE PassOn

\* express.json(): a body that fails to parse is an error
expressJson(req) ==
    IF req.body = "malformed" THEN PassError ELSE PassOn

\* the router mounted at /api/health: GET (and so HEAD) of its root answers
\* 200 with the health report
healthRouter(req) ==
    IF req.path = "/api/health" /\ req.method \in {"GET", "HEAD"}
    THEN Reply(200, Obj([status      |-> Str("OK"),
                         timestamp   |-> Str("2025-08-12T20:00:00.000Z"),
                         uptime      |-> Num(3600500),
                         environment |-> Str("test")]))
    ELSE PassOn

\* a route registered for every method
infoRoute_anyMethod(req) ==
    IF req.path = "/"
    THEN Reply(200, Obj([message   |-> Str("Lifestyle Balance Board API"),
                         version   |-> Str("1.0.0"),
                         timestamp |-> Str("2025-08-12T20:00:00.000Z")]))
    ELSE PassOn

\* app.get('/', ...): express gives HEAD requests to GET routes
infoRoute(req) ==
    IF req.path = "/" /\ req.method \in {"GET", "HEAD"}
    THEN Reply(200, Obj([message   |-> Str("Lifestyle Balance Board API"),
                         version   |-> Str("1.0.0"),
                         timestamp |-> Str("2025-08-12T20:00:00.000Z")]))
    ELSE PassOn

\* the error handling middleware
errorMiddleware ==
    Reply(500, Obj([error |-> Str("Something went wrong!")]))

\* app.use('*', ...): the 404 handler
notFound == Reply(404, Obj([error |-> Str("Route not found")]))

\* the answer of the application: the middleware and routes in the order
\* they are registered; an error skips to the error handling middleware
createTestApp(req) ==
    IF cors(req) # PassOn THEN cors(req)
    ELSE IF expressJson(req) = PassError THEN errorMiddleware
    ELSE IF healthRouter(req) # PassOn THEN healthRouter(req)
    ELSE IF infoRoute(req) # PassOn THEN infoRoute(req)
    ELSE notFound

\* the API process answers a request
Serve(req) ==
    /\ Len(served) < MaxRequests
    /\ served' = Append(served, [req |-> req, res |-> createTestApp(req)])
    /\ UNCHANGED <<env, uiVars, checks, triggers, fetches>>

Init ==
    /\ env \in EnvValues
    /\ apiStatus = "idle"
    /\ apiData = Null
    /\ healthData = Null
    /\ error = Null
    /\ checks = <<>>
    /\ triggers = 0
    /\ fetches = <<>>
    /\ served = <<>>

\* the component: clicks, the answers of the network, resumed handlers
NextComponent ==
    \/ Click
    \/ Reenter
    \/ \E c \in DOMAIN checks, r \in InfoResults : InfoFetchSettles(c, r)
    \/ \E c \in DOMAIN checks, r \in HealthResults : HealthFetchSettles(c, r)
    \/ \E c \in DOMAIN checks : Resume(c)

\* the component in a process whose configuration can change
Next ==
    \/ NextComponent
    \/ \E v \in EnvValues : SetEnv(v)

Spec == Init /\ [][Next]_vars

\* the component under a configuration that stays as it was at start-up
SpecComponent == Init /\ [][NextComponent]_vars

\* the component when the handler is reached only through the button, which
\* is disabled while loading
NextButton ==
    \/ Click
    \/ \E c \in DOMAIN checks, r \in InfoResults : InfoFetchSettles(c, r)
    \/ \E c \in DOMAIN checks, r \in HealthResults : HealthFetchSettles(c, r)
    \/ \E c \in DOMAIN checks : Resume(c)
    \/ \E v \in EnvValues : SetEnv(v)

SpecButton == Init /\ [][NextButton]_vars

\* the component under one configuration; the microtask queue always drains,
\* so a handler whose await has settled resumes. Nothing makes the network
\* answer.
FairSpec ==
    /\ Init
    /\ [][NextComponent]_vars
    /\ \A c \in 1..MaxChecks : WF_vars(Resume(c))

\* ApiService alone, over every way its two fetches can settle
NextService ==
    \/ DirectCall
    \/ \E c \in DOMAIN checks, r \in FetchResults : InfoFetchSettles(c, r)
    \/ \E c \in DOMAIN checks, r \in FetchResults : HealthFetchSettles(c, r)
    \/ \E v \in EnvValues : SetEnv(v)

SpecService == Init /\ [][NextService]_vars

\* the API process alone
NextServer == \E req \in Requests : Serve(req)

SpecServer == Init /\ [][NextServer]_vars

----------------------------------------------------------------------------
(* ApiService: the contract of the three calls *)

\* C1: testConnection resolves to {apiInfo, healthCheck} only if both
\* getApiInfo and getHealthCheck succeeded, apiInfo being the info call's
\* result and healthCheck the health call's; whenever one of the two calls
\* has failed it is rejected, and no object holding one result is returned.
C1_BothOrNothing ==
    \A c \in DOMAIN checks :
        LET res == Result(c)
            i   == checks[c].apiInfo
            h   == checks[c].healthCheck
        IN /\ res.st = "fulfilled" =>
                /\ i.st = "fulfilled" /\ h.st = "fulfilled"
                /\ res.value = Obj([apiInfo |-> i.value, healthCheck |-> h.value])
           /\ (i.st = "rejected" \/ h.st = "rejected") =>
                /\ res.st = "rejected"
                /\ \/ i.st = "rejected" /\ res.value = i.value
                   \/ h.st = "rejected" /\ res.value = h.value

C1_Witness ==
    \E c \in DOMAIN checks :
        /\ Result(c) = Fulfilled(Obj([apiInfo |-> InfoBody, healthCheck |-> HealthBody]))
        /\ checks[c].apiInfo = Fulfilled(InfoBody)
        /\ checks[c].healthCheck = Fulfilled(HealthBody)

\* the message the calls throw for a response that is not ok
HttpErrorText(status) ==
    CASE status = 404 -> "HTTP error! status: 404"
      [] status = 500 -> "HTTP error! status: 500"
      [] status = 503 -> "HTTP error! status: 503"

\* C2: when the response of getApiInfo or getHealthCheck arrives with
\* ok = false and status S, the call fails with an Error whose message is
\* exactly "HTTP error! status: S"; the body is never returned.
C2_HttpError ==
    \A c \in DOMAIN checks :
        /\ (checks[c].infoFetch.st = "fulfilled" /\ ~checks[c].infoFetch.value.ok) =>
              checks[c].apiInfo =
                  Rejected(Err(HttpErrorText(checks[c].infoFetch.value.status)))
        /\ (checks[c].healthFetch.st = "fulfilled" /\ ~checks[c].healthFetch.value.ok) =>
              checks[c].healthCheck =
                  Rejected(Err(HttpErrorText(checks[c].healthFetch.value.status)))

C2_Witness ==
    \E c \in DOMAIN checks :
        /\ checks[c].healthFetch = Fulfilled(Response(FALSE, 503, Fulfilled(Null)))
        /\ checks[c].healthCheck = Rejected(Err("HTTP error! status: 503"))
        /\ checks[c].infoFetch = Fulfilled(Response(FALSE, 500, Fulfilled(Null)))
        /\ checks[c].apiInfo = Rejected(Err("HTTP error! status: 500"))

\* C3: when fetch itself rejects with E, getApiInfo and getHealthCheck fail
\* with exactly E: not wrapped, not replaced by an "HTTP error!" message,
\* not swallowed.
C3_NetworkErrorPassthrough ==
    \A c \in DOMAIN checks :
        /\ checks[c].infoFetch.st = "rejected" =>
              checks[c].apiInfo = Rejected(checks[c].infoFetch.value)
        /\ checks[c].healthFetch.st = "rejected" =>
              checks[c].healthCheck = Rejected(checks[c].healthFetch.value)

C3_Witness ==
    \E c \in DOMAIN checks :
        /\ checks[c].infoFetch = Rejected(Str("Unknown error"))
        /\ checks[c].apiInfo = Rejected(Str("Unknown error"))
        /\ checks[c].healthFetch = Rejected(Err("Network error"))
        /\ checks[c].healthCheck = Rejected(Err("Network error"))

\* C4: when the response has ok = true, getApiInfo and getHealthCheck
\* return the body the JSON parser produced, unchanged and unvalidated.
C4_BodyVerbatim ==
    \A c \in DOMAIN checks :
        /\ ( /\ checks[c].infoFetch.st = "fulfilled"
             /\ checks[c].infoFetch.value.ok
             /\ checks[c].infoFetch.value.json.st = "fulfilled" ) =>
              checks[c].apiInfo = Fulfilled(checks[c].infoFetch.value.json.value)
        /\ ( /\ checks[c].healthFetch.st = "fulfilled"
             /\ checks[c].healthFetch.value.ok
             /\ checks[c].healthFetch.value.json.st = "fulfilled" ) =>
              checks[c].healthCheck = Fulfilled(checks[c].healthFetch.value.json.value)

C4_Witness ==
    \E c \in DOMAIN checks :
        /\ checks[c].infoFetch = Fulfilled(Response(TRUE, 200, Fulfilled(HealthBody)))
        /\ checks[c].apiInfo = Fulfilled(HealthBody)
        /\ checks[c].healthFetch = Fulfilled(Response(TRUE, 200, Fulfilled(Null)))
        /\ checks[c].healthCheck = Fulfilled(Null)

\* C5 as stated: getBaseUrl returns the configured URL whenever
\* NEXT_PUBLIC_API_BASE_URL is set, and "http://localhost:3001" when unset.
C5_AsStated ==
    /\ env.type = "string" => getBaseUrl = env.value
    /\ env.type = "undefined" => getBaseUrl = "http://localhost:3001"

\* C5: getBaseUrl returns the configured URL when NEXT_PUBLIC_API_BASE_URL
\* is set to a non-empty string, and exactly "http://localhost:3001" when it
\* is unset or set to the empty string.
C5_BaseUrl ==
    /\ (env.type = "string" /\ env.value # "") => getBaseUrl = env.value
    /\ (env.type = "undefined" \/ env = Str("")) =>
          getBaseUrl = "http://localhost:3001"

C5_Witness ==
    /\ env = Str("https://production-api.com")
    /\ getBaseUrl = "https://production-api.com"
    /\ \E c \in DOMAIN checks : checks[c].infoUrl = "https://production-api.com"

----------------------------------------------------------------------------
(* ApiTestComponent: the state machine of the connectivity check *)

\* this step is an invocation of the handler
Triggered == triggers' = triggers + 1

\* this step is check c's handler running past its await
Resumes(c) == ~checks[c].resumed /\ checks'[c].resumed

Terminal == apiStatus \in {"success", "error"}

\* C6: when the check fails with an Error the state becomes error and the
\* error text is exactly that Error's message; when it fails with any other
\* value the state becomes error and the text is exactly "Unknown error
\* occurred", never the thrown value itself.
C6_ErrorText ==
    [][\A c \in DOMAIN checks :
          (Resumes(c) /\ Result(c).st = "rejected") =>
              LET e == Result(c).value
              IN /\ apiStatus' = "error"
                 /\ errorPanel'
                 /\ e.type = "Error" => errorText' = Str(e.message)
                 /\ e.type # "Error" =>
                       /\ errorText' = Str("Unknown error occurred")
                       /\ errorText' # e]_vars

C6_Witness ==
    /\ apiStatus = "error"
    /\ errorText = Str("Unknown error occurred")
    /\ \E c, d \in DOMAIN checks :
          /\ checks[c].resumed /\ Result(c) = Rejected(Str("Unknown error"))
          /\ checks[d].resumed
          /\ Result(d) = Rejected(Err("HTTP error! status: 500"))

\* C7: a trigger from idle, success or error moves the state to loading in
\* the same step: the control is disabled and labelled "Testing
\* Connection...", the stored info, health and error are cleared, and exactly
\* one testConnection call has been started and is still pending.
C7_TriggerLoading ==
    [][(Triggered /\ apiStatus \in {"idle", "success", "error"}) =>
          /\ apiStatus' = "loading"
          /\ buttonDisabled'
          /\ buttonLabel' = "Testing Connection..."
          /\ apiData' = Null /\ healthData' = Null /\ error' = Null
          /\ Len(checks') = Len(checks) + 1
          /\ SubSeq(checks', 1, Len(checks)) = checks
          /\ checks'[Len(checks')].all = Pending]_vars

C7_Witness ==
    /\ triggers = 2
    /\ apiStatus = "loading" /\ buttonDisabled
    /\ Len(checks) = 2
    /\ checks[1].resumed /\ Result(1).st = "rejected"
    /\ checks[2].all = Pending
    /\ error = Null

\* C8 as stated: when a check settles successfully with result R the state
\* becomes success, the stored payloads are R.apiInfo and R.healthCheck, and
\* the success panel shows R.apiInfo's message and version.
C8_AsStated ==
    [][\A c \in DOMAIN checks :
          (Resumes(c) /\ Result(c).st = "fulfilled") =>
              LET R == Result(c).value
              IN /\ apiStatus' = "success"
                 /\ apiData' = Get(R, "apiInfo")
                 /\ healthData' = Get(R, "healthCheck")
                 /\ successPanel'
                 /\ apiMessage' = Get(Get(R, "apiInfo"), "message")
                 /\ apiVersion' = Get(Get(R, "apiInfo"), "version")]_vars

\* C8: when a check settles successfully with result R the state becomes
\* success and the stored payloads are R.apiInfo and R.healthCheck; the
\* success panel is rendered exactly when R.apiInfo is truthy, and then it
\* shows R.apiInfo's message and version.
C8_SuccessCarriesResult ==
    [][\A c \in DOMAIN checks :
          (Resumes(c) /\ Result(c).st = "fulfilled") =>
              LET R == Result(c).value
              IN /\ apiStatus' = "success"
                 /\ apiData' = Get(R, "apiInfo")
                 /\ healthData' = Get(R, "healthCheck")
                 /\ successPanel' <=> Truthy(Get(R, "apiInfo"))
                 /\ successPanel' =>
                       /\ apiMessage' = Get(Get(R, "apiInfo"), "message")
                       /\ apiVersion' = Get(Get(R, "apiInfo"), "version")]_vars

C8_Witness ==
    /\ apiStatus = "success"
    /\ apiData = InfoBody /\ healthData = HealthBody
    /\ successPanel
    /\ apiMessage = Str("Lifestyle Balance Board API")
    /\ apiVersion = Str("1.0.0")
    /\ \E c \in DOMAIN checks :
          /\ checks[c].resumed
          /\ Result(c) = Fulfilled(Obj([apiInfo |-> InfoBody, healthCheck |-> HealthBody]))

\* C9: once the testConnection promise a trigger started has settled, the
\* state eventually becomes success or error; the state stays loading for
\* ever only if some started promise never settles.
C9_EventuallyTerminal ==
    /\ \A c \in 1..MaxChecks :
          (c \in DOMAIN checks /\ Settled(Result(c)) /\ ~checks[c].resumed)
              ~> Terminal
    /\ <>[](apiStatus = "loading") =>
          \E c \in 1..MaxChecks :
              <>[](c \in DOMAIN checks /\ ~Settled(Result(c)))

C9_Witness ==
    /\ Terminal
    /\ \A c \in DOMAIN checks : Settled(Result(c)) /\ checks[c].resumed
    /\ Len(checks) = 2

\* C10: triggering a check after a success removes the success display in
\* the same step, and when a check then settles only its outcome is shown:
\* after a failure the error panel is rendered and the success panel is not,
\* after a success the error panel is not rendered.
C10_LatestOutcomeOnly ==
    [][/\ (Triggered /\ successPanel) => (~successPanel' /\ ~errorPanel')
       /\ \A c \in DOMAIN checks :
             /\ (Resumes(c) /\ Result(c).st = "rejected") =>
                   (errorPanel' /\ ~successPanel')
             /\ (Resumes(c) /\ Result(c).st = "fulfilled") =>
                   (~errorPanel' /\ apiData' = Get(Result(c).value, "apiInfo"))]_vars

C10_Witness ==
    /\ triggers = 2
    /\ apiStatus = "loading"
    /\ checks[1].resumed
    /\ Result(1).st = "fulfilled" /\ Truthy(Get(Result(1).value, "apiInfo"))
    /\ ~Settled(Result(2))
    /\ ~successPanel /\ ~errorPanel

\* C11: the control is disabled exactly when the status is loading; the
\* step in which a check settles into the component, with success or with
\* error, leaves the control enabled and labelled "Test Backend Connection",
\* and in every success or error state a click starts a new check (as long
\* as the model's cap on checks is not reached).
C11_ControlReenabled ==
    /\ [](buttonDisabled <=> apiStatus = "loading")
    /\ []((Terminal /\ triggers < MaxChecks) => ENABLED Click)
    /\ [][\A c \in DOMAIN checks :
             Resumes(c) =>
                 /\ Terminal'
                 /\ ~buttonDisabled'
                 /\ buttonLabel' = "Test Backend Connection"]_vars

\* a second check has been started by a click in the error state the first
\* one ended in
C11_Witness ==
    /\ triggers = 2
    /\ checks[1].resumed /\ Result(1).st = "rejected"
    /\ \A c \in DOMAIN checks : checks[c].resumed
    /\ apiStatus = "error"
    /\ ~buttonDisabled /\ buttonLabel = "Test Backend Connection"

\* C12 as stated: in the success state the health fields are rendered
\* exactly when a health payload is held, and a successful result without
\* a health payload yields the success state with the success panel.
C12_AsStated ==
    /\ [](apiStatus = "success" => (healthFields <=> healthData # Null))
    /\ [][\A c \in DOMAIN checks :
             (/\ Resumes(c)
              /\ Result(c).st = "fulfilled"
              /\ Get(Result(c).value, "healthCheck") = Null) =>
                 (apiStatus' = "success" /\ successPanel' /\ ~errorPanel')]_vars

\* C12: when a check succeeds the status becomes success and never error,
\* whether or not the result carries a health payload; the health fields
\* (health status, uptime floored to whole seconds) are rendered exactly when
\* the info payload is truthy, so that the success panel is rendered, and a
\* health payload is present; with a truthy info payload the panel shows
\* message, version and backend URL also when the health payload is null.
C12_HealthFields ==
    [][\A c \in DOMAIN checks :
          (Resumes(c) /\ Result(c).st = "fulfilled") =>
              LET info == Get(Result(c).value, "apiInfo")
                  health == Get(Result(c).value, "healthCheck")
              IN  /\ apiStatus' = "success"
                  /\ ~errorPanel'
                  /\ healthFields' <=> (Truthy(info) /\ health # Null)
                  /\ healthFields' =>
                        /\ healthStatusText' = Get(health, "status")
                        /\ uptimeSeconds'.type = "number"
                        /\ uptimeSeconds'.value % 1000 = 0
                        /\ uptimeSeconds'.value <= Get(health, "uptime").value
                        /\ Get(health, "uptime").value < uptimeSeconds'.value + 1000
                  /\ Truthy(info) =>
                        /\ successPanel'
                        /\ apiMessage' = Get(info, "message")
                        /\ apiVersion' = Get(info, "version")
                        /\ backendUrl' = IF Truthy(env') THEN env'.value
                                         ELSE "http://localhost:3001"]_vars

\* a check succeeded with an info payload and a null health payload
C12_Witness ==
    /\ apiStatus = "success"
    /\ apiData = InfoBody /\ healthData = Null
    /\ successPanel /\ ~healthFields /\ ~errorPanel
    /\ \E c \in DOMAIN checks :
          /\ checks[c].resumed
          /\ Result(c) = Fulfilled(Obj([apiInfo |-> InfoBody, healthCheck |-> Null]))

\* the payloads and the message the four cells hold
HoldsResult == apiData # Null \/ healthData # Null

HoldsError == error # Null

\* no handler invocation so far began while the status was loading
NoOverlap == \A c \in DOMAIN checks : checks[c].startedIn # "loading"

\* C13 as stated: whatever the sequence of triggers and settlements, a
\* trigger while a check is in flight included, a result payload is held
\* only in success, an error message only in error, and idle and loading
\* hold neither.
C13_AsStated ==
    /\ HoldsResult => apiStatus = "success"
    /\ HoldsError => apiStatus = "error"

\* C13: idle and loading hold neither a result payload nor an error
\* message, whatever the sequence of triggers and settlements; and as long
\* as no handler invocation began while the status was loading, which the
\* disabled control enforces, a result payload is held only in success and
\* an error message only in error.
C13_OneVariant ==
    /\ apiStatus \in {"idle", "loading"} => (~HoldsResult /\ ~HoldsError)
    /\ NoOverlap =>
          /\ HoldsResult => apiStatus = "success"
          /\ HoldsError => apiStatus = "error"

\* a success followed by a failure: the error state holds no payload
C13_Witness ==
    /\ apiStatus = "error" /\ HoldsError /\ ~HoldsResult
    /\ Len(checks) = 2 /\ NoOverlap
    /\ checks[1].resumed /\ Result(1).st = "fulfilled"
    /\ Truthy(Get(Result(1).value, "apiInfo"))
    /\ checks[2].resumed /\ Result(2).st = "rejected"

\* the combined promise when getApiInfo settles with i and then
\* getHealthCheck with h
AllInfoFirst(i, h) ==
    PromiseAll(PromiseAll(Pending, i, i, Pending), h, i, h)

\* the combined promise when getHealthCheck settles first
AllHealthFirst(i, h) ==
    PromiseAll(PromiseAll(Pending, h, Pending, h), i, i, h)

BothSettled(c) == Settled(checks[c].apiInfo) /\ Settled(checks[c].healthCheck)

\* this step settles getApiInfo, resp. getHealthCheck, of call c
InfoSettles(c) == ~Settled(checks[c].apiInfo) /\ Settled(checks'[c].apiInfo)

HealthSettles(c) ==
    ~Settled(checks[c].healthCheck) /\ Settled(checks'[c].healthCheck)

\* C14 as stated: for every pair of outcomes of the two calls the result of
\* testConnection is the same whichever call settles first, so it is what
\* the order "info first" yields.
C14_AsStated ==
    \A c \in DOMAIN checks :
        BothSettled(c) =>
            Result(c) = testConnection(AllInfoFirst(checks[c].apiInfo,
                                                    checks[c].healthCheck))

\* what testConnection yields for outcomes i and h that do not both fail
Composite(i, h) ==
    IF i.st = "rejected" THEN Rejected(i.value)
    ELSE IF h.st = "rejected" THEN Rejected(h.value)
    ELSE Fulfilled(Obj([apiInfo |-> i.value, healthCheck |-> h.value]))

\* C14: for every pair of outcomes in which at most one call fails, or both
\* fail with the same error, the result of testConnection is the same
\* whether getApiInfo or getHealthCheck is the second to settle: both
\* succeed -> the pair of bodies, one fails -> its error.
C14_OrderIndependent ==
    [][\A c \in DOMAIN checks :
          LET i == checks'[c].apiInfo
              h == checks'[c].healthCheck
          IN  (/\ InfoSettles(c) \/ HealthSettles(c)
               /\ Settled(i) /\ Settled(h)
               /\ ~(i.st = "rejected" /\ h.st = "rejected" /\ i.value # h.value)) =>
                  Result(c)' = Composite(i, h)]_vars

\* one call succeeded and the other failed; the composite carries the error
C14_Witness ==
    \E c \in DOMAIN checks :
        /\ checks[c].apiInfo = Fulfilled(InfoBody)
        /\ checks[c].healthCheck.st = "rejected"
        /\ Result(c) = Rejected(checks[c].healthCheck.value)

\* what the component displays once a handler has resumed from outcome r
Displays(r) ==
    IF r.st = "fulfilled"
    THEN /\ apiStatus = "success"
         /\ apiData = Get(r.value, "apiInfo")
         /\ healthData = Get(r.value, "healthCheck")
         /\ ~errorPanel
    ELSE /\ apiStatus = "error"
         /\ errorPanel /\ ~successPanel
         /\ errorText = IF InstanceOfError(r.value) THEN Str(r.value.message)
                        ELSE Str("Unknown error occurred")

\* C15: whenever the handler of a check resumes, of the latest check or of
\* an earlier one that is still in flight, the rendered state afterwards is
\* that check's outcome; so with two overlapping checks the one whose
\* promise settles into the component last determines the final display,
\* whichever was started last.
C15_LastSettledWins ==
    [][\A c \in DOMAIN checks : Resumes(c) => Displays(Result(c))']_vars

\* both checks are over, the second failed, and the display is the success
\* of the first
C15_Witness ==
    /\ Len(checks) = 2
    /\ checks[1].resumed /\ checks[2].resumed
    /\ Result(1).st = "fulfilled" /\ Truthy(Get(Result(1).value, "apiInfo"))
    /\ Result(2).st = "rejected"
    /\ Displays(Result(1)) /\ successPanel

\* C16: testConnection fails with the error of the call that fails first:
\* a call that fails while the other has not failed makes the composite
\* reject with that call's error, and once the composite has rejected a
\* later failure of the other call leaves its error unchanged.
C16_FirstFailureWins ==
    [][\A c \in DOMAIN checks :
          /\ (/\ InfoSettles(c)
              /\ checks'[c].apiInfo.st = "rejected"
              /\ checks[c].healthCheck.st # "rejected") =>
                 Result(c)' = Rejected(checks'[c].apiInfo.value)
          /\ (/\ HealthSettles(c)
              /\ checks'[c].healthCheck.st = "rejected"
              /\ checks[c].apiInfo.st # "rejected") =>
                 Result(c)' = Rejected(checks'[c].healthCheck.value)
          /\ Result(c).st = "rejected" => Result(c)' = Result(c)]_vars

\* both calls failed with different errors and the composite carries the
\* error of getHealthCheck, which failed first
C16_Witness ==
    \E c \in DOMAIN checks :
        /\ checks[c].apiInfo.st = "rejected"
        /\ checks[c].healthCheck.st = "rejected"
        /\ checks[c].apiInfo.value # checks[c].healthCheck.value
        /\ Result(c) = Rejected(checks[c].healthCheck.value)

\* C17: testConnection is pending exactly while neither call has failed and
\* at least one is still pending: it is fulfilled only when both calls are,
\* and it is rejected as soon as one call has failed, whatever the state of
\* the other; a rejected testConnection leads to the handler resuming into
\* the error state, with no assumption that the other call ever settles.
C17_PendingUntilDecided ==
    /\ [](\A c \in DOMAIN checks :
            LET i == checks[c].apiInfo
                h == checks[c].healthCheck
                failed == i.st = "rejected" \/ h.st = "rejected"
            IN  /\ Result(c).st = "fulfilled" <=>
                       (i.st = "fulfilled" /\ h.st = "fulfilled")
                /\ Result(c).st = "rejected" <=> failed
                /\ Result(c).st = "pending" <=>
                       (~failed /\ (i.st = "pending" \/ h.st = "pending")))
    /\ \A c \in 1..MaxChecks :
          (c \in DOMAIN checks /\ Result(c).st = "rejected"
              /\ ~checks[c].resumed)
            ~> (c \in DOMAIN checks /\ checks[c].resumed
                   /\ apiStatus = "error")

\* getHealthCheck failed, the fetch of getApiInfo is still pending, and the
\* component shows the error
C17_Witness ==
    \E c \in DOMAIN checks :
        /\ checks[c].healthCheck.st = "rejected"
        /\ checks[c].infoFetch = Pending /\ checks[c].apiInfo = Pending
        /\ Result(c) = Rejected(checks[c].healthCheck.value)
        /\ checks[c].resumed
        /\ c = Len(checks)
        /\ apiStatus = "error"

\* this step starts a call of testConnection
CallStarts == Len(checks') = Len(checks) + 1

\* C18: the step that starts testConnection calls fetch for the base URL and
\* for <base URL>/api/health, in that order, and leaves both requests in
\* flight, neither call settled: the health request is dispatched before
\* any response to the info request exists, and every call passes through a
\* state with both requests pending.
C18_BothDispatched ==
    [][CallStarts =>
          LET n == checks'[Len(checks')]
          IN  /\ fetches' = fetches \o <<getBaseUrl, getBaseUrl \o "/api/health">>
              /\ n.infoUrl = getBaseUrl
              /\ n.healthUrl = getBaseUrl \o "/api/health"
              /\ n.infoFetch = Pending /\ n.healthFetch = Pending
              /\ n.apiInfo = Pending /\ n.healthCheck = Pending
              /\ n.all = Pending]_vars

\* both requests of a call are in flight
C18_Witness ==
    \E c \in DOMAIN checks :
        /\ checks[c].infoFetch = Pending /\ checks[c].healthFetch = Pending
        /\ fetches[2 * c - 1] = checks[c].infoUrl
        /\ fetches[2 * c] = checks[c].healthUrl
        /\ Len(fetches) = 2 * c

\* C19: once testConnection has rejected because one call failed, the
\* settlement of the other call, with success or with failure, changes
\* neither the composite's error nor the component's status, payloads and
\* error message.
C19_LateSettlementDiscarded ==
    [][\A c \in DOMAIN checks :
          (/\ Result(c).st = "rejected"
           /\ InfoSettles(c) \/ HealthSettles(c)) =>
              /\ Result(c)' = Result(c)
              /\ UNCHANGED uiVars
              /\ errorText' = errorText
              /\ errorPanel' = errorPanel]_vars

\* getApiInfo failed and the component shows its error; getHealthCheck has
\* failed later with another error, which appears nowhere
C19_Witness ==
    \E c \in DOMAIN checks :
        /\ checks[c].apiInfo.st = "rejected"
        /\ checks[c].healthCheck.st = "rejected"
        /\ checks[c].healthCheck.value # checks[c].apiInfo.value
        /\ Result(c) = Rejected(checks[c].apiInfo.value)
        /\ checks[c].resumed /\ c = Len(checks)
        /\ apiStatus = "error"
        /\ errorText = Str(checks[c].apiInfo.value.message)

\* C20: a trigger starts exactly one testConnection call, which calls fetch
\* exactly once for the base URL and exactly once for <base URL>/api/health;
\* no other step calls fetch or starts a call, in particular not the one
\* in which a request fails with a network error or a non-2xx status; and a
\* failed request always rejects its call and testConnection, and sends the
\* resuming handler to the error state with a message.
C20_NoRetry ==
    [][/\ Triggered =>
             /\ Len(checks') = Len(checks) + 1
             /\ fetches' = fetches \o <<getBaseUrl, getBaseUrl \o "/api/health">>
       /\ ~Triggered =>
             /\ Len(checks') = Len(checks)
             /\ fetches' = fetches
       /\ \A c \in DOMAIN checks :
             LET failed(f) == \/ f.st = "rejected"
                              \/ f.st = "fulfilled" /\ ~f.value.ok
                 i == checks'[c].infoFetch
                 h == checks'[c].healthFetch
             IN  /\ failed(i) => checks'[c].apiInfo.st = "rejected"
                 /\ failed(h) => checks'[c].healthCheck.st = "rejected"
                 /\ (failed(i) \/ failed(h)) => Result(c)'.st = "rejected"
                 /\ (Resumes(c) /\ (failed(i) \/ failed(h))) =>
                       (apiStatus' = "error" /\ error' # Null)]_vars

\* one trigger, the info request answered with a non-2xx status, the error
\* shown, and still exactly the two requests of that call in the log
C20_Witness ==
    /\ triggers = 1 /\ Len(checks) = 1
    /\ checks[1].infoFetch.st = "fulfilled" /\ ~checks[1].infoFetch.value.ok
    /\ checks[1].resumed
    /\ apiStatus = "error" /\ error # Null
    /\ fetches = <<checks[1].infoUrl, checks[1].healthUrl>>

\* C21: when a check fails, the error panel rendered by the resuming
\* handler shows the error message together with the base URL the failed
\* check's requests were sent to, whatever configuration changes happened
\* in between.
C21_ErrorUrlIsAttempted ==
    [][\A c \in DOMAIN checks :
          (Resumes(c) /\ Result(c).st = "rejected") =>
              /\ errorPanel'
              /\ errorText' # Null
              /\ errorUrl' = checks[c].infoUrl]_vars

\* the base URL the configuration e stands for
Configured(e) ==
    IF e.type = "string" /\ e.value # "" THEN e.value
    ELSE "http://localhost:3001"

\* C22: getBaseUrl is a function of the current environment only: in the
\* state right after the variable was set, changed or removed it yields what
\* the new configuration stands for, and a call of testConnection sends its
\* requests to what the configuration stands for when the call starts,
\* whatever was read before.
C22_Uncached ==
    [][/\ env' # env => getBaseUrl' = Configured(env')
       /\ CallStarts =>
             LET n == checks'[Len(checks')]
             IN  /\ n.infoUrl = Configured(env)
                 /\ n.healthUrl = Configured(env) \o "/api/health"]_vars

\* a call went to the default URL, then the variable was set, and getBaseUrl
\* yields the new value
C22_Witness ==
    /\ Len(checks) = 1
    /\ checks[1].infoUrl = "http://localhost:3001"
    /\ env = Str("https://production-api.com")
    /\ getBaseUrl = "https://production-api.com"

\* C23: a call of testConnection calls fetch with exactly the current base
\* URL, nothing appended, for getApiInfo and with exactly the current base
\* URL followed by "/api/health" for getHealthCheck, the base URL being the
\* one getBaseUrl yields when the request is issued.
C23_RequestUrls ==
    [][CallStarts =>
          LET k == Len(fetches)
          IN  /\ Len(fetches') = k + 2
              /\ fetches'[k + 1] = getBaseUrl
              /\ fetches'[k + 2] = getBaseUrl \o "/api/health"
              /\ getBaseUrl = Configured(env)]_vars

\* the requests of a call under a configured URL
C23_Witness ==
    /\ fetches = <<"https://production-api.com",
                   "https://production-api.com/api/health">>
    /\ Len(checks) = 1
    /\ checks[1].infoUrl = fetches[1] /\ checks[1].healthUrl = fetches[2]

\* C24: a handler invocation while the status is loading runs the same
\* sequence as any other: the cells are cleared, the status stays loading,
\* one more testConnection call is started with both requests pending, and
\* the checks already in flight are left as they are.
C24_RestartWhileLoading ==
    [][(Triggered /\ apiStatus = "loading") =>
          /\ apiStatus' = "loading"
          /\ apiData' = Null /\ healthData' = Null /\ error' = Null
          /\ Len(checks') = Len(checks) + 1
          /\ \A c \in DOMAIN checks : checks'[c] = checks[c]
          /\ checks'[Len(checks')].all = Pending
          /\ checks'[Len(checks')].infoFetch = Pending
          /\ checks'[Len(checks')].healthFetch = Pending
          /\ Len(fetches') = Len(fetches) + 2]_vars

\* two checks in flight at once
C24_Witness ==
    /\ apiStatus = "loading"
    /\ Len(checks) = 2 /\ triggers = 2
    /\ checks[2].startedIn = "loading"
    /\ ~Settled(Result(1)) /\ ~Settled(Result(2))

\* the request is for the route GET / or falls under the /api/health router
Handled(req) ==
    \/ req.method = "GET" /\ req.path = "/"
    \/ req.path = "/api/health"

\* C25 as stated: every request other than GET / and those of the
\* /api/health router, whatever its method, is answered 404 with the body
\* {error: "Route not found"}.
C25_AsStated ==
    \A k \in DOMAIN served :
        ~Handled(served[k].req) => served[k].res = notFound

\* C25: a request other than GET or HEAD / and those of the /api/health
\* router is answered 404 with {error: "Route not found"} when it is not a
\* preflight and its body parses, and then never with the info body or the
\* 500 body; a preflight (OPTIONS) is answered 204 by cors, and a request
\* whose JSON body does not parse is answered 500 with {error: "Something
\* went wrong!"} by the error middleware, whatever the route.
C25_UnhandledRoutes ==
    \A k \in DOMAIN served :
        LET req == served[k].req
            res == served[k].res
        IN  /\ (/\ ~Handled(req)
                /\ ~(req.method = "HEAD" /\ req.path = "/")
                /\ req.method # "OPTIONS"
                /\ req.body # "malformed") =>
                   /\ res.status = 404
                   /\ res.body = Obj([error |-> Str("Route not found")])
            /\ req.method = "OPTIONS" =>
                   (res.status = 204 /\ res.body = Undefined)
            /\ (req.method # "OPTIONS" /\ req.body = "malformed") =>
                   /\ res.status = 500
                   /\ res.body = Obj([error |-> Str("Something went wrong!")])

\* a POST to a route that does not exist was answered 404
C25_Witness ==
    \E k \in DOMAIN served :
        /\ served[k].req = [method |-> "POST", path |-> "/some-random-endpoint",
                            body |-> "json"]
        /\ served[k].res.status = 404
        /\ served[k].res.body = Obj([error |-> Str("Route not found")])

\* the calls of testConnection that have not settled, and the handler
\* invocations that have not run past their await
Unsettled == {c \in DOMAIN checks : ~Settled(Result(c))}

Awaiting == {c \in DOMAIN checks : ~checks[c].resumed}

\* C26: with the handler reached only through the control, which is
\* disabled while loading, no state has two unsettled testConnection calls
\* or two handler invocations waiting, and every settlement applied to the
\* component is that of the most recently triggered check.
C26_OneInFlight ==
    /\ [](Cardinality(Unsettled) <= 1 /\ Cardinality(Awaiting) <= 1)
    /\ [](Awaiting # {} => (Awaiting = {Len(checks)} /\ apiStatus = "loading"))
    /\ [][\A c \in DOMAIN checks : Resumes(c) => c = Len(checks)]_vars

\* the second check is in flight, the first is over
C26_Witness ==
    /\ Len(checks) = 2
    /\ checks[1].resumed
    /\ Unsettled = {2} /\ Awaiting = {2}
    /\ buttonDisabled

\* C27: with the handler invoked only while the status is not loading, in
\* idle and loading the info payload, the health payload and the error
\* message are all null, in success the error message is null, and in error
\* the error message is not null and both payloads are null.
C27_PayloadsMatchStatus ==
    /\ apiStatus \in {"idle", "loading"} =>
          (apiData = Null /\ healthData = Null /\ error = Null)
    /\ apiStatus = "success" => error = Null
    /\ apiStatus = "error" =>
          (error # Null /\ apiData = Null /\ healthData = Null)

\* a success that follows a failure holds no error message
C27_Witness ==
    /\ apiStatus = "success" /\ error = Null /\ apiData # Null
    /\ Len(checks) = 2
    /\ checks[1].resumed /\ Result(1).st = "rejected"
    /\ checks[2].resumed /\ Result(2).st = "fulfilled"

\* C28 as stated: for any sequence of triggers and settlements, triggers
\* while a check is in flight included, the status is loading and the
\* control disabled whenever some started check has not settled.
C28_AsStated ==
    Unsettled # {} => (apiStatus = "loading" /\ buttonDisabled)

\* C28: as long as no handler invocation began while the status was
\* loading, the status is loading and the control disabled whenever some
\* started check has not settled.
C28_LoadingWhileInFlight ==
    (NoOverlap /\ Unsettled # {}) => (apiStatus = "loading" /\ buttonDisabled)

\* a check started from the error state is in flight
C28_Witness ==
    /\ NoOverlap
    /\ Len(checks) = 2 /\ checks[2].startedIn = "error"
    /\ Unsettled = {2}
    /\ apiStatus = "loading" /\ buttonDisabled

\* C29: in every state, overlapping checks included, the success panel and
\* the error panel are not both rendered, and neither is rendered while the
\* status is idle or loading.
C29_AtMostOnePanel ==
    /\ ~(successPanel /\ errorPanel)
    /\ apiStatus \in {"idle", "loading"} => (~successPanel /\ ~errorPanel)

\* after overlapping checks the error state still holds the payload of the
\* check that succeeded, and only the error panel is rendered
C29_Witness ==
    /\ apiStatus = "error" /\ Truthy(apiData)
    /\ errorPanel /\ ~successPanel

\* C30 as stated: whenever the status is success the success panel is
\* rendered, whatever the info payload.
C30_AsStated == apiStatus = "success" => successPanel

\* C30: whenever the status is success, the success panel is rendered
\* exactly when the info payload held is truthy, and the error panel is not
\* rendered; the success panel is rendered in no other status.
C30_SuccessPanel ==
    /\ apiStatus = "success" => ((successPanel <=> Truthy(apiData)) /\ ~errorPanel)
    /\ successPanel => apiStatus = "success"

\* a success with both payloads, panel rendered
C30_Witness ==
    /\ apiStatus = "success"
    /\ apiData = InfoBody /\ healthData = HealthBody
    /\ successPanel /\ healthFields

\* C31: the status is idle exactly as long as the handler has never been
\* invoked; no step, trigger or settlement, of the latest check or of a
\* stale one, takes the status from loading, success or error back to idle.
C31_IdleOnlyInitially ==
    /\ [](apiStatus = "idle" <=> triggers = 0)
    /\ [](triggers > 0 => apiStatus \in {"loading", "success", "error"})
    /\ [][apiStatus # "idle" => apiStatus' # "idle"]_vars

\* two checks have failed one after the other and the component is in error
C31_Witness ==
    /\ triggers = 2
    /\ \A c \in DOMAIN checks : checks[c].resumed /\ Result(c).st = "rejected"
    /\ Len(checks) = 2 /\ checks[2].startedIn = "error"
    /\ apiStatus = "error"

====
